---------------------------- MODULE Spec2Model ----------------------------
(***************************************************************************)
(* Model of the aggregation / caching core of the Vendingpreneurs          *)
(* dashboard: the in-memory TTL cache (src/lib/cache.ts), the Airtable     *)
(* client (src/lib/airtable.ts) and the statistics route (api/stats).      *)
(*                                                                         *)
(* Strings that the code concatenates or inspects (cache keys, option      *)
(* values) are sequences of one-character strings, so that concatenation   *)
(* is \o and two keys are equal exactly when the JavaScript strings are.   *)
(* An optional value (T | undefined) is <<>> when absent and <<v>> when    *)
(* present.                                                                *)
(*                                                                         *)
(* Time is counted in units of one minute: the code only adds a TTL to     *)
(* Date.now() and compares the sum with Date.now(), so every ordering of   *)
(* an instant against an expiry (before, at, after) occurs on the grid.    *)
(***************************************************************************)
EXTENDS Integers, Sequences, FiniteSets, TLC

VARIABLES
    now,        \* Date.now()
    store,      \* MemoryCache.store : key -> [value, expiresAt]
    lastOp,     \* the last cache operation performed and what it returned
    lastSet,    \* per key: the last set() not followed by invalidate/clear
    touched,    \* per key: a get/has ran after the last set's TTL had elapsed
    keyQ,       \* buildCacheKey: the two queries it is applied to
    keyOut,     \* buildCacheKey: the two keys it returned
    srv,        \* the external store: the records of the table and how it pages
    call,       \* the fetchTable call in progress (its locals and its position)
    req,        \* the GET /api/stats request in progress
    fnArgs,     \* the arguments of the function or handler under study
    fnOut,      \* <<>> before it has run, <<what it returned>> after
    hook        \* one useStats instance, the module-level cache it shares,
                \* and its requests to /api/stats

cacheVars == <<now, store>>
cacheHist == <<lastOp, lastSet, touched>>
keyVars == <<keyQ, keyOut>>
fetchVars == <<srv, call>>
statsVars == <<req>>
fnVars == <<fnArgs, fnOut>>

vars == <<now, store, lastOp, lastSet, touched, keyQ, keyOut, srv, call, req,
          fnArgs, fnOut, hook>>

-----------------------------------------------------------------------------
(* Bounds of the cache specification *)

MaxTime == 3
MaxTtl == 2

-----------------------------------------------------------------------------
(* cache.ts *)

\* const DEFAULT_TTL_MS = 5 * 60 * 1000, in minutes
DEFAULT_TTL_MS == (5 * 60 * 1000) \div (60 * 1000)

Absent == <<>>
Some(v) == <<v>>

Remove(st, k) == [x \in DOMAIN st \ {k} |-> st[x]]
Put(st, k, e) == [x \in DOMAIN st \cup {k} |-> IF x = k THEN e ELSE st[x]]

\* a plausible slip: the comparison of get/has/prune turned around
ExpiredInverted(entry, t) == t < entry.expiresAt

\* `Date.now() > entry.expiresAt` (get, has and prune share the test)
Expired(entry, t) == t > entry.expiresAt

\* get(key): the value returned
CacheGetResult(st, t, k) ==
    IF k \notin DOMAIN st THEN Absent
    ELSE IF Expired(st[k], t) THEN Absent
    ELSE Some(st[k].value)

\* get(key) / has(key): the store afterwards (lazy deletion)
CacheGetStore(st, t, k) ==
    IF k \in DOMAIN st /\ Expired(st[k], t) THEN Remove(st, k) ELSE st

\* has(key): the boolean returned
CacheHasResult(st, t, k) ==
    IF k \notin DOMAIN st THEN FALSE
    ELSE IF Expired(st[k], t) THEN FALSE
    ELSE TRUE

\* a plausible slip: the TTL left out of expiresAt
CacheSetStoreNoTtl(st, t, k, v, ttlMs) ==
    Put(st, k, [value |-> v, expiresAt |-> t])

\* set(key, value, ttlMs): the store afterwards
CacheSetStore(st, t, k, v, ttlMs) ==
    Put(st, k, [value |-> v, expiresAt |-> t + ttlMs])

\* prune(): the store afterwards
CachePruneStore(st, t) ==
    [x \in {k \in DOMAIN st : ~Expired(st[k], t)} |-> st[x]]

\* get size()
CacheSize(st) == Cardinality(DOMAIN st)

-----------------------------------------------------------------------------
(* airtable.ts *)

\* "airtable:"
S_airtable == <<"a","i","r","t","a","b","l","e",":">>

\* const MAX_RETRIES = 5; const INITIAL_RETRY_DELAY_MS = 1000
MAX_RETRIES == 5
INITIAL_RETRY_DELAY_MS == 1000

\* TABLE_IDS: the i-th alias and the i-th table id, in the order of the source
TableAliases == <<
    <<"c","l","i","e","n","t","s">>,
    <<"s","t","u","d","e","n","t","O","n","b","o","a","r","d","i","n","g">>,
    <<"o","n","b","o","a","r","d","i","n","g","E","r","r","o","r","s">>,
    <<"w","a","r","m","L","e","a","d","s">>,
    <<"n","a","t","i","o","n","a","l","C","o","n","t","r","a","c","t","s","M","S","A">>,
    <<"c","o","m","p","l","e","t","e","N","a","t","i","o","n","a","l","C","o","n","t","r","a","c","t","s">>,
    <<"k","p","i","S","n","a","p","s","h","o","t","s">>,
    <<"r","e","f","u","n","d","s">>,
    <<"c","l","i","e","n","t","L","e","v","e","l","L","o","g">>,
    <<"w","a","r","m","L","e","a","d","Q","A">>,
    <<"d","a","t","a","Q","u","a","l","i","t","y">>,
    <<"m","i","s","s","e","d","L","e","a","d","s">>
>>

TableIdOf == <<
    <<"t","b","l","w","D","u","c","K","Y","A","s","P","D","V","B","A","2">>,
    <<"t","b","l","M","L","F","Y","T","e","o","q","r","t","m","g","X","Q">>,
    <<"t","b","l","a","Q","6","f","p","H","G","h","R","s","5","6","s","H">>,
    <<"t","b","l","E","G","c","R","k","L","q","1","Q","6","0","Y","d","U">>,
    <<"t","b","l","n","q","X","C","Y","8","j","8","V","A","C","u","A","w">>,
    <<"t","b","l","m","e","Z","J","J","D","V","n","c","q","w","u","N","d">>,
    <<"t","b","l","c","Y","W","X","a","4","l","m","i","5","j","g","x","v">>,
    <<"t","b","l","3","U","2","X","s","i","r","Q","Z","H","B","Z","H","y">>,
    <<"t","b","l","g","e","b","c","4","d","R","d","T","L","V","J","O","9">>,
    <<"t","b","l","J","n","W","U","R","j","V","8","H","4","g","w","N","o">>,
    <<"t","b","l","J","i","l","m","E","7","e","t","Z","B","0","7","6","t">>,
    <<"t","b","l","v","e","2","1","i","7","j","w","y","w","b","f","C","C">>
>>

TBL_clients == TableIdOf[1]
TBL_refunds == TableIdOf[8]

\* "tbl"
S_tbl == <<"t","b","l">>

StartsWith(s, prefix) ==
    Len(s) >= Len(prefix) /\ SubSeq(s, 1, Len(prefix)) = prefix

\* TABLE_IDS is an object literal: a lookup that finds no own property goes
\* on to Object.prototype, whose members are functions and objects
S_constructor == <<"c","o","n","s","t","r","u","c","t","o","r">>
S_toString == <<"t","o","S","t","r","i","n","g">>
S_valueOf == <<"v","a","l","u","e","O","f">>
S_hasOwnProperty == <<"h","a","s","O","w","n","P","r","o","p","e","r","t","y">>
S_proto == <<"_","_","p","r","o","t","o","_","_">>

ObjectPrototypeKeys ==
    {S_constructor, S_toString, S_valueOf, S_hasOwnProperty, S_proto}

\* the member of Object.prototype found under `name`: not a string
InheritedValue(name) == <<"Object.prototype.">> \o name

\* TABLE_IDS[name]: <<value>>, or <<>> for undefined
TableIdsLookup(name) ==
    LET hits == {i \in 1..Len(TableAliases) : TableAliases[i] = name}
    IN IF hits # {} THEN Some(TableIdOf[CHOOSE i \in hits : TRUE])
       ELSE IF name \in ObjectPrototypeKeys THEN Some(InheritedValue(name))
       ELSE Absent

\* resolveTableId(tableNameOrId): <<what it returns>>, or <<>> when it throws
\* (every value a lookup can find is truthy)
resolveTableId(tableNameOrId) ==
    IF StartsWith(tableNameOrId, S_tbl) THEN Some(tableNameOrId)
    ELSE TableIdsLookup(tableNameOrId)

\* FetchTableOptions; `options` undefined is the record of absent members
NoOptions ==
    [fields |-> Absent, filterByFormula |-> Absent, maxRecords |-> Absent,
     sort |-> Absent, view |-> Absent, cacheTtl |-> Absent]

\* String(n) for an integer
RECURSIVE DigitsOf(_)
DigitsOf(n) ==
    LET d == <<"0","1","2","3","4","5","6","7","8","9">>[(n % 10) + 1]
    IN IF n < 10 THEN <<d>> ELSE DigitsOf(n \div 10) \o <<d>>

NumberToString(n) == IF n < 0 THEN <<"-">> \o DigitsOf(-n) ELSE DigitsOf(n)

\* Array.prototype.join(sep)
RECURSIVE Join(_, _)
Join(parts, sep) ==
    IF Len(parts) = 0 THEN <<>>
    ELSE IF Len(parts) = 1 THEN parts[1]
    ELSE parts[1] \o sep \o Join(Tail(parts), sep)

\* JSON.stringify of one { field, direction? } (no character needs escaping)
StringifySortItem(item) ==
    <<"{","\"","f","i","e","l","d","\"",":","\"">> \o item.field \o <<"\"">>
    \o (IF item.direction = Absent THEN <<>>
        ELSE <<",","\"","d","i","r","e","c","t","i","o","n","\"",":","\"">> \o item.direction[1] \o <<"\"">>)
    \o <<"}">>

\* JSON.stringify(options.sort)
StringifySort(sort) ==
    <<"[">> \o Join([i \in 1..Len(sort) |-> StringifySortItem(sort[i])], <<",">>) \o <<"]">>

\* JavaScript truthiness of an optional string / number / array
TruthyString(o) == o # Absent /\ o[1] # <<>>
TruthyNumber(o) == o # Absent /\ o[1] # 0
TruthyArray(o) == o # Absent

\* if (options?.maxRecords) parts.push(`m:${options.maxRecords}`)
MaxRecordsPart(options) ==
    IF TruthyNumber(options.maxRecords)
    THEN << <<"m",":">> \o NumberToString(options.maxRecords[1]) >> ELSE <<>>

\* buildCacheKey(tableId, options)
buildCacheKey(tableId, options) ==
    LET parts ==
            << S_airtable \o tableId >>
            \o (IF TruthyArray(options.fields)
                THEN << <<"f",":">> \o Join(options.fields[1], <<",">>) >> ELSE <<>>)
            \o (IF TruthyString(options.filterByFormula)
                THEN << <<"q",":">> \o options.filterByFormula[1] >> ELSE <<>>)
            \o MaxRecordsPart(options)
            \o (IF TruthyArray(options.sort)
                THEN << <<"s",":">> \o StringifySort(options.sort[1]) >> ELSE <<>>)
            \o (IF TruthyString(options.view)
                THEN << <<"v",":">> \o options.view[1] >> ELSE <<>>)
    IN Join(parts, <<"|">>)

-----------------------------------------------------------------------------
(* The cache on its own: every public operation of MemoryCache, with the    *)
(* clock advancing between operations.                                      *)

\* "dashboard:stats:all"
STATS_CACHE_KEY ==
    <<"d","a","s","h","b","o","a","r","d",":","s","t","a","t","s",":","a","l","l">>

CacheKeys == {STATS_CACHE_KEY, buildCacheKey(TBL_clients, NoOptions)}
CacheValues == {"v1", "v2"}
TtlChoices == (-1) .. MaxTtl

\* lastOp describes the operation of the current instant; a tick forgets it
NoOp == [op |-> "none", key |-> <<>>, ret |-> Absent, pre |-> Absent]

EntryOf(st, k) == IF k \in DOMAIN st THEN Some(st[k]) ELSE Absent

\* has the TTL of the last set on k elapsed at instant t ?
Elapsed(k, t) == lastSet[k] # Absent /\ t > lastSet[k][1].at + lastSet[k][1].ttl

CacheInit ==
    /\ now = 0
    /\ store = <<>>
    /\ lastOp = NoOp
    /\ lastSet = [k \in CacheKeys |-> Absent]
    /\ touched = [k \in CacheKeys |-> FALSE]
    /\ keyQ = <<>> /\ keyOut = <<>>
    /\ srv = <<>> /\ call = <<>>
    /\ req = <<>>
    /\ fnArgs = <<>> /\ fnOut = <<>> /\ hook = <<>>

CacheOthers == <<keyQ, keyOut, srv, call, req, fnArgs, fnOut, hook>>

CacheTick ==
    /\ now < MaxTime
    /\ now' = now + 1
    /\ lastOp' = NoOp
    /\ UNCHANGED <<store, lastSet, touched, CacheOthers>>

CacheSet(k, v, ttlMs) ==
    /\ store' = CacheSetStore(store, now, k, v, ttlMs)
    /\ lastOp' = [op |-> "set", key |-> k, ret |-> Absent,
                  pre |-> EntryOf(store, k)]
    /\ lastSet' = [lastSet EXCEPT ![k] = Some([at |-> now, ttl |-> ttlMs, value |-> v])]
    /\ touched' = [touched EXCEPT ![k] = FALSE]
    /\ UNCHANGED <<now, CacheOthers>>

CacheGet(k) ==
    /\ store' = CacheGetStore(store, now, k)
    /\ lastOp' = [op |-> "get", key |-> k, ret |-> CacheGetResult(store, now, k),
                  pre |-> EntryOf(store, k)]
    /\ touched' = [touched EXCEPT ![k] = @ \/ Elapsed(k, now)]
    /\ UNCHANGED <<now, lastSet, CacheOthers>>

CacheHas(k) ==
    /\ store' = CacheGetStore(store, now, k)
    /\ lastOp' = [op |-> "has", key |-> k,
                  ret |-> IF CacheHasResult(store, now, k) THEN Some("true") ELSE Absent,
                  pre |-> EntryOf(store, k)]
    /\ touched' = [touched EXCEPT ![k] = @ \/ Elapsed(k, now)]
    /\ UNCHANGED <<now, lastSet, CacheOthers>>

CacheInvalidate(k) ==
    /\ store' = Remove(store, k)
    /\ lastOp' = [op |-> "invalidate", key |-> k,
                  ret |-> IF k \in DOMAIN store THEN Some("true") ELSE Absent,
                  pre |-> EntryOf(store, k)]
    /\ lastSet' = [lastSet EXCEPT ![k] = Absent]
    /\ touched' = [touched EXCEPT ![k] = FALSE]
    /\ UNCHANGED <<now, CacheOthers>>

CacheClear ==
    /\ store' = <<>>
    /\ lastOp' = [NoOp EXCEPT !.op = "clear"]
    /\ lastSet' = [k \in CacheKeys |-> Absent]
    /\ touched' = [k \in CacheKeys |-> FALSE]
    /\ UNCHANGED <<now, CacheOthers>>

CachePrune ==
    /\ store' = CachePruneStore(store, now)
    /\ lastOp' = [NoOp EXCEPT !.op = "prune"]
    /\ UNCHANGED <<now, lastSet, touched, CacheOthers>>

CacheNext ==
    \/ CacheTick
    \/ \E k \in CacheKeys, v \in CacheValues, t \in TtlChoices : CacheSet(k, v, t)
    \/ \E k \in CacheKeys : CacheGet(k)
    \/ \E k \in CacheKeys : CacheHas(k)
    \/ \E k \in CacheKeys : CacheInvalidate(k)
    \/ CacheClear
    \/ CachePrune

SpecCache == CacheInit /\ [][CacheNext]_vars

-----------------------------------------------------------------------------
(* buildCacheKey on its own: it is applied to a query and to a second query *)
(* that differs from the first in one or two of the table and the options.  *)

\* "a", "b", "a,b", "a|v:b", "asc"
S_a == <<"a">>
S_b == <<"b">>
S_a_comma_b == <<"a",",","b">>
S_a_bar_v_b == <<"a","|","v",":","b">>
S_asc == <<"a","s","c">>

KeyTables == {TBL_clients, TBL_refunds}
KeyFields == {Absent, Some(<<S_a>>), Some(<<S_a, S_b>>), Some(<<S_a_comma_b>>)}
KeyFilters == {Absent, Some(S_a), Some(S_a_bar_v_b)}
KeyMaxRecords == {Absent, Some(0), Some(1)}
KeySorts == {Absent,
             Some(<<[field |-> S_a, direction |-> Absent]>>),
             Some(<<[field |-> S_a, direction |-> Some(S_asc)]>>)}
KeyViews == {Absent, Some(S_a), Some(S_b)}

KeyOptions ==
    [fields : KeyFields, filterByFormula : KeyFilters, maxRecords : KeyMaxRecords,
     sort : KeySorts, view : KeyViews, cacheTtl : {Absent}]

KeyQueries == [tableId : KeyTables, options : KeyOptions]

\* in how many of the table and the five key options two queries differ
QueryDistance(q1, q2) ==
    Cardinality({f \in {"fields", "filterByFormula", "maxRecords", "sort", "view"} :
                    q1.options[f] # q2.options[f]})
    + (IF q1.tableId # q2.tableId THEN 1 ELSE 0)

KeyOthers == <<now, store, lastOp, lastSet, touched, srv, call, req, fnArgs, fnOut, hook>>

KeyInit ==
    /\ keyQ \in {<<q>> : q \in KeyQueries}
    /\ keyOut = <<>>
    /\ now = 0 /\ store = <<>>
    /\ lastOp = NoOp /\ lastSet = <<>> /\ touched = <<>>
    /\ srv = <<>> /\ call = <<>> /\ req = <<>>
    /\ fnArgs = <<>> /\ fnOut = <<>> /\ hook = <<>>

BuildKeys(q2) ==
    /\ Len(keyQ) = 1
    /\ QueryDistance(keyQ[1], q2) <= 2
    /\ keyQ' = <<keyQ[1], q2>>
    /\ keyOut' = <<buildCacheKey(keyQ[1].tableId, keyQ[1].options),
                   buildCacheKey(q2.tableId, q2.options)>>
    /\ UNCHANGED KeyOthers

KeyNext == \E q2 \in KeyQueries : BuildKeys(q2)

SpecKey == KeyInit /\ [][KeyNext]_vars

-----------------------------------------------------------------------------
(* fetchTable against a simulated store.                                    *)
(*                                                                          *)
(* The store holds the records 1..total of the table and serves them in     *)
(* pages of PageSize, each response carrying a continuation token while     *)
(* records remain.  Answering a request it may or may not apply the         *)
(* maxRecords parameter itself.  Any request may be answered 200, 429 (with *)
(* or without Retry-After), 5xx or 4xx, or fail before any response arrives *)
(* (fetch() rejects).  Nothing in the code bounds the wait for a response.  *)
(*                                                                          *)
(* A call runs synchronously up to its first fetch(): FetchStart covers     *)
(* lines 163-209 up to the request being issued; Respond is the arrival of  *)
(* the response and everything the code does until the next suspension;     *)
(* WakeUp is the end of a back-off sleep.                                   *)

MaxTotal == 5
PageSize == 2
MaxCalls == 2
FetchMaxTime == 2
RetryAfterSecs == 3

Min(a, b) == IF a < b THEN a ELSE b

\* the records the store holds
StoreRecords(s) == [i \in 1..s.total |-> i]

\* the pages a store serves when no cap applies
NumPages(s) == IF s.total = 0 THEN 1 ELSE (s.total + PageSize - 1) \div PageSize

\* the body of a 200 response to a request carrying `offset` and `maxRecords`
Serve(s, offset, maxRecordsParam, honorsMax) ==
    LET limit == IF honorsMax /\ maxRecordsParam # Absent
                 THEN Min(s.total, maxRecordsParam[1]) ELSE s.total
        start == IF offset = Absent THEN 0 ELSE offset[1]
        end   == Min(start + PageSize, limit)
    IN [records |-> [i \in 1..(end - start) |-> start + i],
        offset  |-> IF end < limit THEN Some(end) ELSE Absent]

Responses ==
    {[status |-> 200, retryAfter |-> Absent, honorsMax |-> FALSE, body |-> ""],
     [status |-> 200, retryAfter |-> Absent, honorsMax |-> TRUE, body |-> ""],
     [status |-> 429, retryAfter |-> Absent, honorsMax |-> FALSE, body |-> ""],
     [status |-> 429, retryAfter |-> Some(NumberToString(RetryAfterSecs)),
      honorsMax |-> FALSE,
      body |-> ""],
     [status |-> 500, retryAfter |-> Absent, honorsMax |-> FALSE,
      body |-> "SERVER_ERROR"],
     [status |-> 404, retryAfter |-> Absent, honorsMax |-> FALSE,
      body |-> "NOT_FOUND"]}

\* new Error(`Airtable API error ${response.status}: ${body}`)
ApiError(resp) == [status |-> resp.status, body |-> resp.body]

\* the errors that carry no HTTP status
UnknownTableError == [status |-> 0, body |-> "Unknown table name"]
MaxRetriesError == [status |-> 0, body |-> "Airtable request failed after max retries"]
NetworkError == [status |-> 0, body |-> "fetch failed"]

\* "bogus": no alias and not shaped like a table id
S_bogus == <<"b","o","g","u","s">>

FetchTables == {TableAliases[1], TBL_clients, S_bogus}
FetchMaxRecords == {Absent} \cup {Some(m) : m \in {0, 3}}
FetchCacheTtls == {Absent, Some(0), Some(1)}
FetchOptions ==
    {[NoOptions EXCEPT !.maxRecords = m, !.cacheTtl = t] :
        m \in FetchMaxRecords, t \in FetchCacheTtls}

IdleCall ==
    [pc |-> "idle", callNo |-> 0, options |-> NoOptions,
     tableId |-> <<>>, ttl |-> 0, cacheKey |-> <<>>,
     allRecords |-> <<>>, offset |-> Absent, attempt |-> 0, lastError |-> Absent,
     delayMs |-> 0, result |-> Absent, error |-> Absent,
     hit |-> FALSE, pagesRequested |-> 0, pageRequests |-> 0, reissued |-> FALSE,
     pages200 |-> 0, only429 |-> TRUE,
     \* the request on the wire: how many, and the offset parameter it carries
     outstanding |-> 0, reqOffset |-> Absent,
     \* `response.status` of the loop iteration in progress (0: none yet)
     lastStatus |-> 0,
     \* the table last invalidated with no entry stored since by a call that
     \* started later; whether this call was running when that happened
     inval |-> Absent, stale |-> FALSE]

\* a plausible slip: `||` for `??`, so that 0 falls back to the default
ResolveTtlOr(options) ==
    IF options.cacheTtl = Absent \/ options.cacheTtl[1] = 0
    THEN DEFAULT_TTL_MS ELSE options.cacheTtl[1]

\* const ttl = options?.cacheTtl ?? DEFAULT_TTL_MS
ResolveTtl(options) ==
    IF options.cacheTtl = Absent THEN DEFAULT_TTL_MS ELSE options.cacheTtl[1]

\* a plausible slip: an empty cached list treated as a miss
CachedHitNonEmpty(cached) == cached # Absent /\ Len(cached[1]) > 0

\* `if (cached) return cached;` -- a cached record list is an array, hence truthy
CachedHit(cached) == cached # Absent

\* the maxRecords parameter of the request URL (set only when truthy)
MaxRecordsParam(options) ==
    IF TruthyNumber(options.maxRecords) THEN options.maxRecords ELSE Absent

\* `options?.maxRecords && allRecords.length >= options.maxRecords`
CapReached(options, allRecords) ==
    TruthyNumber(options.maxRecords) /\ Len(allRecords) >= options.maxRecords[1]

\* the trim to maxRecords (lines 221-224)
TrimToMax(options, allRecords) ==
    IF TruthyNumber(options.maxRecords) /\ Len(allRecords) > options.maxRecords[1]
    THEN SubSeq(allRecords, 1, options.maxRecords[1])
    ELSE allRecords

\* parseInt(str, 10): leading white space skipped, an optional sign, then the
\* longest run of decimal digits; NaN (Absent) when there is no digit
IsDigit(c) == c \in {"0", "1", "2", "3", "4", "5", "6", "7", "8", "9"}

DigitValue(c) == CHOOSE d \in 0..9 : DigitsOf(d) = <<c>>

RECURSIVE TrimStart(_)
TrimStart(str) ==
    IF str # <<>> /\ Head(str) \in {" ", "\t"} THEN TrimStart(Tail(str)) ELSE str

RECURSIVE DigitPrefix(_)
DigitPrefix(str) ==
    IF str = <<>> \/ ~IsDigit(Head(str)) THEN <<>>
    ELSE <<Head(str)>> \o DigitPrefix(Tail(str))

RECURSIVE DigitsValue(_)
DigitsValue(ds) ==
    IF ds = <<>> THEN 0
    ELSE DigitsValue(SubSeq(ds, 1, Len(ds) - 1)) * 10 + DigitValue(ds[Len(ds)])

ParseInt(str) ==
    LET s == TrimStart(str)
        signed == s # <<>> /\ Head(s) \in {"+", "-"}
        ds == DigitPrefix(IF signed THEN Tail(s) ELSE s)
    IN IF ds = <<>> THEN Absent
       ELSE Some(IF signed /\ Head(s) = "-" THEN 0 - DigitsValue(ds) ELSE DigitsValue(ds))

\* delayMs of the 429 branch (lines 120-123) as a JavaScript number: Absent
\* is NaN.  retryAfter is headers.get("Retry-After"): Absent is null
RetryDelay(retryAfter, attempt) ==
    IF TruthyString(retryAfter)
    THEN IF ParseInt(retryAfter[1]) = Absent THEN Absent
         ELSE Some(ParseInt(retryAfter[1])[1] * 1000)
    ELSE Some(INITIAL_RETRY_DELAY_MS * (2 ^ attempt))

\* sleep(ms): setTimeout runs a NaN or sub-millisecond delay as 1 ms
SleepMs(delay) == IF delay = Absent \/ delay[1] < 1 THEN 1 ELSE delay[1]

\* the back-off after a 429 / after a 5xx
DelayAfter429(resp, attempt) == SleepMs(RetryDelay(resp.retryAfter, attempt))

\* a plausible slip: the 5xx back-off not growing with the attempt
DelayAfter5xxFlat(attempt) == INITIAL_RETRY_DELAY_MS

DelayAfter5xx(attempt) == INITIAL_RETRY_DELAY_MS * (2 ^ attempt)

\* a plausible slip: every error status retried
ShouldRetryAny(status) == status >= 400

\* `if (response.status >= 500)`: retry, otherwise `throw lastError`
ShouldRetry(status) == status >= 500

\* a plausible slip: the continuation token left out of the next request
OffsetParamNone(offset) == Absent

\* `if (offset) params.set("offset", offset)`
OffsetParam(offset) == offset

\* the loop condition `attempt < MAX_RETRIES`
AttemptsLeft(attempt) == attempt < MAX_RETRIES

FetchOthers == <<lastOp, lastSet, touched, keyQ, keyOut, req, fnArgs, fnOut, hook>>

FetchInit ==
    /\ now = 0
    /\ store = <<>>
    /\ srv \in [total : 0..MaxTotal]
    /\ call = IdleCall
    /\ lastOp = NoOp /\ lastSet = <<>> /\ touched = <<>>
    /\ keyQ = <<>> /\ keyOut = <<>>
    /\ req = <<>>
    /\ fnArgs = <<>> /\ fnOut = <<>> /\ hook = <<>>

FetchTick ==
    /\ now < FetchMaxTime
    /\ now' = now + 1
    /\ UNCHANGED <<store, srv, call, FetchOthers>>

\* fetchTable(tableNameOrId, options) up to the first request (or the return)
FetchStart(tableNameOrId, options) ==
    /\ call.pc \in {"idle", "done", "failed"}
    /\ call.callNo < MaxCalls
    /\ LET fresh == [IdleCall EXCEPT !.callNo = call.callNo + 1,
                                     !.options = options,
                                     !.inval = call.inval]
           resolved == resolveTableId(tableNameOrId)
       IN IF resolved = Absent
          THEN /\ call' = [fresh EXCEPT !.pc = "failed", !.error = Some(UnknownTableError)]
               /\ UNCHANGED store
          ELSE LET tableId == resolved[1]
                   ttl == ResolveTtl(options)
                   cacheKey == buildCacheKey(tableId, options)
                   cached == IF ttl > 0 THEN CacheGetResult(store, now, cacheKey)
                             ELSE Absent
                   known == [fresh EXCEPT !.tableId = tableId, !.ttl = ttl,
                                          !.cacheKey = cacheKey]
               IN /\ store' = IF ttl > 0 THEN CacheGetStore(store, now, cacheKey)
                              ELSE store
                  /\ IF ttl > 0 /\ CachedHit(cached)
                     THEN call' = [known EXCEPT !.pc = "done", !.hit = TRUE,
                                                !.result = cached]
                     ELSE call' = [known EXCEPT !.pc = "awaiting",
                                                !.pagesRequested = 1,
                                                !.pageRequests = 1,
                                                !.outstanding = 1,
                                                !.reqOffset = OffsetParam(Absent)]
    /\ UNCHANGED <<now, srv, FetchOthers>>

\* a plausible slip: the page replaces what was collected
AccumulateOverwrite(allRecords, records) == records

\* allRecords.push(...data.records)
Accumulate(allRecords, records) == allRecords \o records

\* lines 211-231 once a page has arrived
AfterPage(c, data) ==
    LET all == Accumulate(c.allRecords, data.records)
        got == [c EXCEPT !.allRecords = all, !.offset = data.offset,
                         !.pages200 = @ + 1]
    IN IF ~CapReached(c.options, all) /\ data.offset # Absent
       THEN \* next iteration of the do-while: a new airtableGet
            [got EXCEPT !.pc = "awaiting", !.attempt = 0, !.lastError = Absent,
                        !.pagesRequested = @ + 1, !.pageRequests = 1,
                        !.only429 = TRUE, !.lastStatus = 0,
                        !.outstanding = @ + 1,
                        !.reqOffset = OffsetParam(data.offset)]
       ELSE [got EXCEPT !.pc = "done", !.result = Some(TrimToMax(c.options, all))]

\* a plausible slip: what has been collected cached after every page
StoresEveryPage(next) == next.ttl > 0

\* `if (ttl > 0) cache.set(cacheKey, result, ttl)` is reached only past the
\* do-while, when the last page has arrived
Stores(next) == next.pc = "done" /\ next.ttl > 0

\* the response to the outstanding request arrives
Respond(resp) ==
    /\ call.pc = "awaiting"
    /\ LET c == [call EXCEPT !.outstanding = @ - 1, !.lastStatus = resp.status] IN
       IF resp.status = 429
       THEN /\ call' = [c EXCEPT !.pc = "sleeping",
                         !.delayMs = DelayAfter429(resp, call.attempt)]
            /\ UNCHANGED store
       ELSE IF resp.status # 200 /\ ShouldRetry(resp.status)
       THEN /\ call' = [c EXCEPT !.pc = "sleeping",
                         !.only429 = FALSE,
                         !.lastError = Some(ApiError(resp)),
                         !.delayMs = DelayAfter5xx(call.attempt)]
            /\ UNCHANGED store
       ELSE IF resp.status # 200
       THEN /\ call' = [c EXCEPT !.pc = "failed",
                         !.only429 = FALSE,
                         !.lastError = Some(ApiError(resp)),
                         !.error = Some(ApiError(resp))]
            /\ UNCHANGED store
       ELSE LET data == Serve(srv, call.reqOffset, MaxRecordsParam(call.options),
                              resp.honorsMax)
                next == AfterPage([c EXCEPT !.only429 = FALSE], data)
                stored == Stores(next)
            IN /\ call' = IF stored /\ ~next.stale /\ next.inval = Some(next.tableId)
                          THEN [next EXCEPT !.inval = Absent]
                          ELSE next
               /\ store' = IF stored
                           THEN CacheSetStore(store, now, next.cacheKey,
                                              TrimToMax(next.options, next.allRecords),
                                              next.ttl)
                           ELSE store
    /\ UNCHANGED <<now, srv, FetchOthers>>

\* fetch() rejects (no connection, reset, DNS): nothing catches it, so it
\* leaves airtableGet and fetchTable at once
NetworkFailure ==
    /\ call.pc = "awaiting"
    /\ call' = [call EXCEPT !.pc = "failed", !.outstanding = @ - 1,
                            !.only429 = FALSE,
                            !.error = Some(NetworkError)]
    /\ UNCHANGED <<now, store, srv, FetchOthers>>

\* invalidateTableCache(tableNameOrId): resolve (or throw), then cache.clear()
InvalidateTableCache(tableNameOrId) ==
    /\ resolveTableId(tableNameOrId) # Absent
    /\ store' = <<>>
    /\ call' = [call EXCEPT !.inval = resolveTableId(tableNameOrId),
                            !.stale = call.pc \in {"awaiting", "sleeping"}]
    /\ UNCHANGED <<now, srv, FetchOthers>>

\* the back-off sleep ends: `continue`, attempt++, and the loop test
WakeUp ==
    /\ call.pc = "sleeping"
    /\ IF AttemptsLeft(call.attempt + 1)
       THEN call' = [call EXCEPT !.pc = "awaiting", !.attempt = @ + 1, !.delayMs = 0,
                                 !.reissued = TRUE, !.pageRequests = @ + 1,
                                 !.outstanding = @ + 1, !.lastStatus = 0]
       ELSE call' = [call EXCEPT !.pc = "failed", !.attempt = @ + 1, !.delayMs = 0,
                                 !.error = IF call.lastError # Absent
                                           THEN call.lastError
                                           ELSE Some(MaxRetriesError)]
    /\ UNCHANGED <<now, store, srv, FetchOthers>>

FetchNext ==
    \/ FetchTick
    \/ \E t \in FetchTables, o \in FetchOptions : FetchStart(t, o)
    \/ \E r \in Responses : Respond(r)
    \/ WakeUp
    \/ NetworkFailure

SpecFetch == FetchInit /\ [][FetchNext]_vars

(* fetchTable calls interleaved with invalidateTableCache: the same steps,  *)
(* for the option values that decide what the cache holds                   *)
InvalOptions == {o \in FetchOptions : o.maxRecords = Absent}
InvalResponses == {r \in Responses : r.status = 200 /\ ~r.honorsMax}

InvalNext ==
    \/ FetchTick
    \/ \E t \in FetchTables, o \in InvalOptions : FetchStart(t, o)
    \/ \E r \in InvalResponses : Respond(r)
    \/ NetworkFailure
    \/ \E t \in FetchTables : InvalidateTableCache(t)

SpecInval == FetchInit /\ [][InvalNext]_vars

-----------------------------------------------------------------------------
(* fetchTable calls that overlap in time: each slot runs one call at a time, *)
(* all for the clients table, and the table may grow while they run.  The   *)
(* store answers 200 or 404 here; retries are those of the single call.     *)

MaxOverlapCalls == 2

Slots == {1, 2}

OverlapOptions == {NoOptions, [NoOptions EXCEPT !.maxRecords = Some(3)]}
OverlapResponses == {r \in Responses : r.status \in {200, 404}}

\* a plausible slip: one accumulator shared by the calls (a module-level array)
CollectedShared(calls, i) == calls[1].allRecords \o calls[2].allRecords

\* `const allRecords: AirtableRecord[] = []` is local to the call
Collected(calls, i) == calls[i].allRecords

OverlapInit ==
    /\ now = 0
    /\ store = <<>>
    /\ srv \in [total : 0..MaxTotal]
    /\ call = [i \in Slots |-> IdleCall]
    /\ lastOp = NoOp /\ lastSet = <<>> /\ touched = <<>>
    /\ keyQ = <<>> /\ keyOut = <<>>
    /\ req = <<>>
    /\ fnArgs = <<>> /\ fnOut = <<>> /\ hook = <<>>

\* a record is added to the table
Grow ==
    /\ srv.total < MaxTotal
    /\ srv' = [srv EXCEPT !.total = @ + 1]
    /\ UNCHANGED <<now, store, call, FetchOthers>>

\* fetchTable("clients", options) in slot i, up to the first request
OverlapStart(i, options) ==
    /\ call[i].pc \in {"idle", "done", "failed"}
    /\ call[i].callNo < MaxOverlapCalls
    /\ LET tableId == resolveTableId(TableAliases[1])[1]
           ttl == ResolveTtl(options)
           cacheKey == buildCacheKey(tableId, options)
           cached == IF ttl > 0 THEN CacheGetResult(store, now, cacheKey) ELSE Absent
           known == [IdleCall EXCEPT !.callNo = call[i].callNo + 1,
                                     !.options = options, !.tableId = tableId,
                                     !.ttl = ttl, !.cacheKey = cacheKey]
       IN /\ store' = IF ttl > 0 THEN CacheGetStore(store, now, cacheKey) ELSE store
          /\ call' = [call EXCEPT ![i] =
                         IF ttl > 0 /\ CachedHit(cached)
                         THEN [known EXCEPT !.pc = "done", !.hit = TRUE,
                                            !.result = cached]
                         ELSE [known EXCEPT !.pc = "awaiting",
                                            !.pagesRequested = 1,
                                            !.pageRequests = 1,
                                            !.outstanding = 1,
                                            !.reqOffset = OffsetParam(Absent)]]
    /\ UNCHANGED <<now, srv, FetchOthers>>

\* the response to the request of slot i arrives
OverlapRespond(i, resp) ==
    /\ call[i].pc = "awaiting"
    /\ LET c == [call[i] EXCEPT !.outstanding = @ - 1, !.lastStatus = resp.status,
                                !.only429 = FALSE,
                                !.allRecords = Collected(call, i)]
       IN IF resp.status # 200
          THEN /\ call' = [call EXCEPT ![i] =
                              [c EXCEPT !.pc = "failed",
                                        !.lastError = Some(ApiError(resp)),
                                        !.error = Some(ApiError(resp))]]
               /\ UNCHANGED store
          ELSE LET data == Serve(srv, c.reqOffset, MaxRecordsParam(c.options),
                                 resp.honorsMax)
                   next == AfterPage(c, data)
               IN /\ call' = [call EXCEPT ![i] = next]
                  /\ store' = IF Stores(next)
                              THEN CacheSetStore(store, now, next.cacheKey,
                                                 TrimToMax(next.options, next.allRecords),
                                                 next.ttl)
                              ELSE store
    /\ UNCHANGED <<now, srv, FetchOthers>>

OverlapNext ==
    \/ Grow
    \/ \E i \in Slots, o \in OverlapOptions : OverlapStart(i, o)
    \/ \E i \in Slots, r \in OverlapResponses : OverlapRespond(i, r)

SpecOverlap == OverlapInit /\ [][OverlapNext]_vars

(* GET /api/stats (the statistics assembler).                               *)
(*                                                                          *)
(* The handler runs synchronously from the read of the statistics entry to  *)
(* the await of Promise.all: by then every safeFetch has run fetchTable up  *)
(* to its cache read and, on a miss, has issued its first request           *)
(* (StatsStart).  Each fetchTable call then settles on its own, with the    *)
(* record list of the table or with an error (Settle); its pages and        *)
(* retries are those of SpecFetch and are not repeated here.  When all have *)
(* settled the document is assembled, cached and returned (StatsFinish).    *)
(* The first NTables tables of TABLE_IDS are fetched.                       *)

NTables == 3
MaxStatsRecs == 2
MaxStatsCalls == 2
StatsMaxTime == 3

\* const STATS_TTL_MS = 2 * 60 * 1000, in minutes
STATS_TTL_MS == (2 * 60 * 1000) \div (60 * 1000)

TableNos == 1..NTables

\* records as the statistics read them: the "Status" field only
SampleRecords ==
    <<[id |-> 1, Status |-> Some("Active")],
      [id |-> 2, Status |-> Some("Churned")],
      [id |-> 3, Status |-> Absent],
      [id |-> 4, Status |-> Some("Paused")]>>

\* what the store may hold in a table: any prefix of the sample for the
\* clients table, a prefix of fixed length for each of the others
UpstreamLists(i) ==
    IF i = 1 THEN {SubSeq(SampleRecords, 1, n) : n \in 0..MaxStatsRecs}
    ELSE {SubSeq(SampleRecords, 1, Min(i - 1, MaxStatsRecs))}

\* String(r.fields["Status"] ?? "")
StatusString(r) == IF r.Status = Absent THEN "" ELSE r.Status[1]

\* the filter of activeClients (lines 497-507)
IsActiveClient(r) ==
    LET status == StatusString(r) IN
    /\ status # ""
    /\ status # "Churned"
    /\ status # "Full Refund"
    /\ status # "Cancelled"
    /\ status # "Paused"

\* clients.filter(...).length
CountActive(list) == Cardinality({i \in 1..Len(list) : IsActiveClient(list[i])})

\* a plausible slip: the error of fetchTable let through
SafeFetchRethrow(outcome) == [threw |-> outcome = Absent,
                              records |-> IF outcome = Absent THEN <<>> ELSE outcome[1]]

\* safeFetch: the records of fetchTable, [] when it throws
safeFetch(outcome) ==
    [threw |-> FALSE, records |-> IF outcome = Absent THEN <<>> ELSE outcome[1]]

\* a plausible slip: the inactive clients counted by a filter of their own
\* (status "Inactive") instead of by subtraction
BuildStatsInactiveByStatus(recs, t) ==
    LET clients == recs[1]
        activeClients == CountActive(clients)
        inactiveClients == Cardinality({i \in 1..Len(clients) :
                                          StatusString(clients[i]) = "Inactive"})
    IN [overview |-> [totalClients |-> Len(clients),
                      activeClients |-> activeClients,
                      inactiveClients |-> inactiveClients],
        clients |-> [total |-> Len(clients),
                     active |-> activeClients,
                     inactive |-> inactiveClients],
        meta |-> [fetchedAt |-> t,
                  cachedUntil |-> t + STATS_TTL_MS,
                  recordCounts |-> [i \in TableNos |-> Len(recs[i])]]]

\* the document assembled from the record lists (lines 492-802): the counts
\* that depend on the number of records of a table and on the client status
BuildStats(recs, t) ==
    LET clients == recs[1]
        activeClients == CountActive(clients)
    IN [overview |-> [totalClients |-> Len(clients),
                      activeClients |-> activeClients,
                      inactiveClients |-> Len(clients) - activeClients],
        clients |-> [total |-> Len(clients),
                     active |-> activeClients,
                     inactive |-> Len(clients) - activeClients],
        meta |-> [fetchedAt |-> t,
                  cachedUntil |-> t + STATS_TTL_MS,
                  recordCounts |-> [i \in TableNos |-> Len(recs[i])]]]

TableKey(i) == buildCacheKey(resolveTableId(TableIdOf[i])[1], NoOptions)

IdleReq ==
    [pc |-> "idle", callNo |-> 0, force |-> FALSE,
     fetch |-> [i \in TableNos |-> "none"],
     fetched |-> [i \in TableNos |-> Absent],
     status |-> 0, response |-> Absent, fromCache |-> FALSE,
     assembled |-> Absent]

\* a plausible slip: the statistics entry never read
BypassAlways(forceRefresh) == TRUE

\* `if (!forceRefresh)` guards the read of the statistics entry
Bypass(forceRefresh) == forceRefresh

\* the synchronous part of the NTables fetchTable calls, table by table
RECURSIVE StartFetches(_, _, _)
StartFetches(st, t, i) ==
    IF i > NTables THEN [store |-> st, fetch |-> <<>>, fetched |-> <<>>]
    ELSE LET ttl == ResolveTtl(NoOptions)
             cached == IF ttl > 0 THEN CacheGetResult(st, t, TableKey(i)) ELSE Absent
             st1 == IF ttl > 0 THEN CacheGetStore(st, t, TableKey(i)) ELSE st
             hit == ttl > 0 /\ CachedHit(cached)
             rest == StartFetches(st1, t, i + 1)
         IN [store |-> rest.store,
             fetch |-> <<IF hit THEN "hit" ELSE "inflight">> \o rest.fetch,
             fetched |-> <<IF hit THEN cached ELSE Absent>> \o rest.fetched]

StatsOthers == <<lastOp, lastSet, touched, keyQ, keyOut, srv, call, fnArgs, fnOut, hook>>

StatsInit ==
    /\ now = 0
    /\ store = <<>>
    /\ req = IdleReq
    /\ lastOp = NoOp /\ lastSet = <<>> /\ touched = <<>>
    /\ keyQ = <<>> /\ keyOut = <<>>
    /\ srv = <<>> /\ call = <<>>
    /\ fnArgs = <<>> /\ fnOut = <<>> /\ hook = <<>>

StatsTick ==
    /\ now < StatsMaxTime
    /\ now' = now + 1
    /\ UNCHANGED <<store, req, StatsOthers>>

\* GET(request) up to `await Promise.all(...)`, or to the cached response
StatsStart(forceRefresh) ==
    /\ req.pc \in {"idle", "done"}
    /\ req.callNo < MaxStatsCalls
    /\ LET fresh == [IdleReq EXCEPT !.callNo = req.callNo + 1, !.force = forceRefresh,
                                    !.assembled = req.assembled]
           cached == IF Bypass(forceRefresh) THEN Absent
                     ELSE CacheGetResult(store, now, STATS_CACHE_KEY)
           st1 == IF Bypass(forceRefresh) THEN store
                  ELSE CacheGetStore(store, now, STATS_CACHE_KEY)
       IN IF cached # Absent
          THEN /\ req' = [fresh EXCEPT !.pc = "done", !.status = 200,
                                       !.response = cached, !.fromCache = TRUE]
               /\ store' = st1
          ELSE LET started == StartFetches(st1, now, 1) IN
               /\ req' = [fresh EXCEPT !.pc = "awaiting",
                                       !.fetch = started.fetch,
                                       !.fetched = started.fetched]
               /\ store' = started.store
    /\ UNCHANGED <<now, StatsOthers>>

\* the fetchTable call for table i settles: with the table's records, which
\* it caches, or with an error
Settle(i, outcome) ==
    /\ req.pc = "awaiting"
    /\ req.fetch[i] = "inflight"
    /\ req' = [req EXCEPT !.fetch[i] = IF outcome = Absent THEN "failed" ELSE "ok",
                          !.fetched[i] = outcome]
    /\ store' = IF outcome # Absent /\ ResolveTtl(NoOptions) > 0
                THEN CacheSetStore(store, now, TableKey(i),
                                   TrimToMax(NoOptions, outcome[1]),
                                   ResolveTtl(NoOptions))
                ELSE store
    /\ UNCHANGED <<now, StatsOthers>>

\* a plausible slip: the results combined as soon as one fetch has settled
\* (Promise.race / Promise.any in place of Promise.all)
AnySettled(fetch) == \E i \in TableNos : fetch[i] # "inflight"

\* `await Promise.all([...])` resumes when every safeFetch has settled
AllSettled(fetch) == \A i \in TableNos : fetch[i] # "inflight"

\* Promise.all has resolved: assemble, cache, respond (500 if anything threw)
StatsFinish ==
    /\ req.pc = "awaiting"
    /\ AllSettled(req.fetch)
    /\ LET safe == [i \in TableNos |-> safeFetch(req.fetched[i])]
           recs == [i \in TableNos |-> safe[i].records]
           stats == BuildStats(recs, now)
       IN IF \E i \in TableNos : safe[i].threw
          THEN /\ req' = [req EXCEPT !.pc = "done", !.status = 500,
                                     !.response = Absent]
               /\ UNCHANGED store
          ELSE /\ req' = [req EXCEPT !.pc = "done", !.status = 200,
                                     !.response = Some(stats),
                                     !.assembled = Some([at |-> now, doc |-> stats])]
               /\ store' = CacheSetStore(store, now, STATS_CACHE_KEY, stats,
                                         STATS_TTL_MS)
    /\ UNCHANGED <<now, StatsOthers>>

StatsNext ==
    \/ StatsTick
    \/ \E f \in BOOLEAN : StatsStart(f)
    \/ \E i \in TableNos : \E l \in UpstreamLists(i) : Settle(i, Some(l))
    \/ \E i \in TableNos : Settle(i, Absent)
    \/ StatsFinish

SpecStats == StatsInit /\ [][StatsNext]_vars

(* useStats (the client-side hook), one instance of it.  The module-level   *)
(* cachedStats / cacheTimestamp may have been filled by an earlier instance. *)
(* A document is held by the number of the fetchStats call that received it  *)
(* (0 for the document of an earlier instance).                              *)

MaxHookCalls == 3
HookMaxTime == 3

\* const CACHE_TTL_MS = 2 * 60 * 1000, in minutes
CACHE_TTL_MS == (2 * 60 * 1000) \div (60 * 1000)

\* isCacheValid()
isCacheValid(h, t) == h.cachedStats # Absent /\ t - h.cacheTimestamp < CACHE_TTL_MS

\* a plausible slip: the guard on fetchingRef left out
GuardedNever(fetching) == FALSE

\* `if (fetchingRef.current) return;`
Guarded(fetching) == fetching

\* fetchStats(forceRefresh) up to `await fetch(url)`
fetchStats(h, forceRefresh) ==
    LET called == [h EXCEPT !.calls = @ + 1] IN
    IF Guarded(h.fetching) THEN called
    ELSE [called EXCEPT !.fetching = TRUE, !.loading = TRUE,
                        !.inflight = @ + 1,
                        !.issued = @ + 1,
                        !.refresh = forceRefresh]

HookOthers == <<store, lastOp, lastSet, touched, keyQ, keyOut, srv, call, req,
                fnArgs, fnOut>>

\* the first render: useState(cachedStats), useState(!isCacheValid()),
\* useRef(false)
HookInit ==
    /\ now \in {0, CACHE_TTL_MS}
    /\ \E cached \in {Absent, Some(0)} :
          LET h == [phase |-> "rendered", cachedStats |-> cached, cacheTimestamp |-> 0,
                    stats |-> cached, loading |-> FALSE, fetching |-> FALSE,
                    timer |-> FALSE, inflight |-> 0, issued |-> 0, calls |-> 0,
                    refresh |-> FALSE]
          IN hook = [h EXCEPT !.loading = ~isCacheValid(h, now)]
    /\ store = <<>>
    /\ lastOp = NoOp /\ lastSet = <<>> /\ touched = <<>>
    /\ keyQ = <<>> /\ keyOut = <<>>
    /\ srv = <<>> /\ call = <<>> /\ req = <<>>
    /\ fnArgs = <<>> /\ fnOut = <<>>

HookTick ==
    /\ now < HookMaxTime
    /\ now' = now + 1
    /\ UNCHANGED <<hook, HookOthers>>

\* the two effects run after the first commit (lines 48-65)
MountEffect ==
    /\ hook.phase = "rendered"
    /\ LET mounted == [hook EXCEPT !.phase = "mounted"] IN
       IF isCacheValid(hook, now)
       THEN hook' = [mounted EXCEPT !.stats = hook.cachedStats, !.loading = FALSE,
                                    !.timer = TRUE]
       ELSE hook' = fetchStats(mounted, FALSE)
    /\ UNCHANGED <<now, HookOthers>>

\* the background revalidation: setTimeout(() => fetchStats(false), 500)
TimerFires ==
    /\ hook.phase = "mounted" /\ hook.timer
    /\ hook.calls < MaxHookCalls
    /\ hook' = fetchStats([hook EXCEPT !.timer = FALSE], FALSE)
    /\ UNCHANGED <<now, HookOthers>>

\* refresh(), or a "dashboard-refresh" event (Header.handleRefresh)
Refresh ==
    /\ hook.phase = "mounted"
    /\ hook.calls < MaxHookCalls
    /\ hook' = fetchStats(hook, TRUE)
    /\ UNCHANGED <<now, HookOthers>>

\* the cleanups of the effects: clearTimeout, removeEventListener
Unmount ==
    /\ hook.phase = "mounted"
    /\ hook' = [hook EXCEPT !.phase = "unmounted", !.timer = FALSE]
    /\ UNCHANGED <<now, HookOthers>>

HookOutcomes == {"ok", "not ok", "network error", "invalid json"}

\* fetch(url) settles: lines 32-43
Receive(outcome) ==
    /\ hook.inflight > 0
    /\ LET got == IF outcome = "ok"
                  THEN [hook EXCEPT !.cachedStats = Some(hook.calls),
                                    !.cacheTimestamp = now,
                                    !.stats = Some(hook.calls)]
                  ELSE hook
       IN hook' = [got EXCEPT !.inflight = @ - 1,
                              !.loading = FALSE, !.fetching = FALSE]
    /\ UNCHANGED <<now, HookOthers>>

HookNext ==
    \/ HookTick
    \/ MountEffect
    \/ TimerFires
    \/ Refresh
    \/ Unmount
    \/ \E o \in HookOutcomes : Receive(o)

SpecHook == HookInit /\ [][HookNext]_vars

-----------------------------------------------------------------------------
(* Functions applied to one input: the input is drawn by Init and the       *)
(* action applies the function to it.                                       *)

FnOthers == <<now, store, lastOp, lastSet, touched, keyQ, keyOut, srv, call, req, hook>>

FnParked ==
    /\ now = 0 /\ store = <<>>
    /\ lastOp = NoOp /\ lastSet = <<>> /\ touched = <<>>
    /\ keyQ = <<>> /\ keyOut = <<>>
    /\ srv = <<>> /\ call = <<>> /\ req = <<>>
    /\ hook = <<>>

(* resolveTableId *)

ResolveMaxLen == 3

ResolveAlphabet == {"t", "b", "l", "x"}

\* every string over the alphabet up to the bound, the aliases, their ids,
\* an unknown name and the member names of Object.prototype
ResolveInputs ==
    UNION {[1..n -> ResolveAlphabet] : n \in 0..ResolveMaxLen}
    \cup {TableAliases[i] : i \in 1..Len(TableAliases)}
    \cup {TableIdOf[i] : i \in 1..Len(TableIdOf)}
    \cup {S_bogus} \cup ObjectPrototypeKeys

ResolveInit ==
    /\ fnArgs \in {<<n>> : n \in ResolveInputs}
    /\ fnOut = <<>>
    /\ FnParked

Resolve ==
    /\ fnOut = <<>>
    /\ fnOut' = <<resolveTableId(fnArgs[1])>>
    /\ UNCHANGED <<fnArgs, FnOthers>>

ResolveNext == Resolve

SpecResolve == ResolveInit /\ [][ResolveNext]_vars

(* POST /api/actions *)

MaxPayloadKeys == 2

\* a JSON value as the handler sees it: its type, and what the handler
\* inspects of it (the string, the number, the count of keys or elements)
JUndefined == [t |-> "undefined", s |-> "", n |-> 0]
JNull == [t |-> "null", s |-> "", n |-> 0]
JString(str) == [t |-> "string", s |-> str, n |-> 0]
JNumber(num) == [t |-> "number", s |-> "", n |-> num]
JObject(keys) == [t |-> "object", s |-> "", n |-> keys]
JArray(len) == [t |-> "array", s |-> "", n |-> len]

\* the length of a string, for the strings used as payload here
StrLen(str) ==
    CASE str = "" -> 0
      [] str = "ab" -> 2
      [] OTHER -> 1

\* truthiness of a JSON value
Truthy(v) ==
    CASE v.t \in {"undefined", "null"} -> FALSE
      [] v.t = "string" -> v.s # ""
      [] v.t = "number" -> v.n # 0
      [] OTHER -> TRUE

\* Object.keys(v).length for a value that is not null or undefined
ObjectKeysLength(v) ==
    CASE v.t \in {"object", "array"} -> v.n
      [] v.t = "string" -> StrLen(v.s)
      [] OTHER -> 0

\* const VALID_ACTIONS = ["resubmit", "audit"]
VALID_ACTIONS == {"resubmit", "audit"}

\* VALID_ACTIONS.includes(action): only the two strings themselves
IsValidAction(action) == action.t = "string" /\ action.s \in VALID_ACTIONS

ActionValues ==
    {JUndefined, JNull, JNumber(0), JNumber(1)}
    \cup {JString(a) : a \in {"", "resubmit", "audit", "delete", "Resubmit"}}

PayloadValues ==
    {JUndefined, JNull, JString(""), JString("ab"), JNumber(0)}
    \cup {JObject(k) : k \in 0..MaxPayloadKeys}
    \cup {JArray(k) : k \in 0..1}

\* the request body: text that does not parse, or the parsed JSON value with
\* the members the handler reads (undefined on a value that has none)
ActionBodies ==
    {[json |-> j, action |-> JUndefined, payload |-> JUndefined] :
        j \in {"invalid", "null", "number", "string", "array"}}
    \cup {[json |-> "object", action |-> a, payload |-> q] :
            a \in ActionValues, q \in PayloadValues}

\* what the webhook call meets: an ok response, a non-ok status, a failure
\* of fetch() or of reading the response
WebhookOutcomes == {"ok", "not-ok", "throws"}

\* postWebhook: never throws, { success } tells how it went
postWebhook(outcome) == [success |-> outcome = "ok"]

NoTrigger == [status |-> 0, trigger |-> "none", sent |-> JUndefined]

\* const status = result.success ? 200 : 502
TriggerStatus(result) == IF result.success THEN 200 ELSE 502

\* POST(request): the response status, the trigger called and what it was sent
POST(body, outcome) ==
    IF body.json = "invalid" THEN [NoTrigger EXCEPT !.status = 400]
    ELSE IF body.json = "null"
    THEN \* `body.action` on null throws a TypeError: the outer catch
         [NoTrigger EXCEPT !.status = 500]
    ELSE IF ~Truthy(body.action) \/ ~IsValidAction(body.action)
    THEN [NoTrigger EXCEPT !.status = 400]
    ELSE IF body.action.s = "resubmit"
    THEN IF ~Truthy(body.payload) \/ ObjectKeysLength(body.payload) = 0
         THEN [NoTrigger EXCEPT !.status = 400]
         ELSE [status |-> TriggerStatus(postWebhook(outcome)),
               trigger |-> "resubmit", sent |-> body.payload]
    ELSE IF body.action.s = "audit"
    THEN [status |-> TriggerStatus(postWebhook(outcome)),
          trigger |-> "audit", sent |-> JUndefined]
    ELSE [NoTrigger EXCEPT !.status = 400]

ActionsInit ==
    /\ fnArgs \in {<<b>> : b \in ActionBodies}
    /\ fnOut = <<>>
    /\ FnParked

\* one POST, the webhook (if called) meeting `outcome`
Post(outcome) ==
    /\ fnOut = <<>>
    /\ fnOut' = <<[response |-> POST(fnArgs[1], outcome), outcome |-> outcome]>>
    /\ UNCHANGED <<fnArgs, FnOthers>>

ActionsNext == \E outcome \in WebhookOutcomes : Post(outcome)

SpecActions == ActionsInit /\ [][ActionsNext]_vars

(* utils.ts: countByField *)

MaxCountRecs == 2

S_empty == <<"(","e","m","p","t","y",")">>
S_one == <<"1">>

\* the value of record.fields[fieldName]: undefined, null, a string, a
\* number, or an array of strings
FUndefined == [t |-> "undefined", s |-> <<>>, n |-> 0, items |-> <<>>]
FNull == [t |-> "null", s |-> <<>>, n |-> 0, items |-> <<>>]
FString(str) == [t |-> "string", s |-> str, n |-> 0, items |-> <<>>]
FNumber(num) == [t |-> "number", s |-> <<>>, n |-> num, items |-> <<>>]
FArray(items) == [t |-> "array", s |-> <<>>, n |-> 0, items |-> items]

\* String(value) for a string or a number
StringOf(v) == IF v.t = "number" THEN NumberToString(v.n) ELSE v.s

CountStrings == {S_a, S_b, S_one, S_empty, S_constructor}

CountValues ==
    {FUndefined, FNull, FNumber(0), FNumber(1)}
    \cup {FString(x) : x \in CountStrings \cup {<<>>}}
    \cup {FArray(<<>>), FArray(<<S_a>>), FArray(<<S_a, S_b>>), FArray(<<S_a, S_a>>),
          FArray(<<S_constructor>>)}

RECURSIVE ListsUpTo(_, _)
\* the lists of at most n members of S
ListsUpTo(S, n) ==
    IF n = 0 THEN {<<>>}
    ELSE LET shorter == ListsUpTo(S, n - 1)
         IN shorter \cup {Append(l, x) : l \in shorter, x \in S}

\* a bucket of `counts`: a number, or the text that `+ 1` makes of an
\* inherited member of Object.prototype (with one "1" appended per increment)
NumberBucket(k) == [isNumber |-> TRUE, n |-> k]
TextBucket(k) == [isNumber |-> FALSE, n |-> k]

\* counts[key] = (counts[key] || 0) + 1, `counts` being an object literal
Increment(counts, key) ==
    [x \in DOMAIN counts \cup {key} |->
        IF x # key THEN counts[x]
        ELSE IF key \in DOMAIN counts
        THEN [counts[key] EXCEPT !.n = @ + 1]
        ELSE IF key \in ObjectPrototypeKeys \ {S_proto}
        THEN TextBucket(1)
        ELSE NumberBucket(1)]

RECURSIVE CountItems(_, _, _)
\* for (const v of value) { ... }
CountItems(counts, items, j) ==
    IF j > Len(items) THEN counts
    ELSE CountItems(Increment(counts, items[j]), items, j + 1)

\* the body of the loop over the records (lines 26-38)
CountRecord(counts, value) ==
    IF value.t = "array" THEN CountItems(counts, value.items, 1)
    ELSE IF value.t \notin {"undefined", "null"} /\ value # FString(<<>>)
    THEN Increment(counts, StringOf(value))
    ELSE Increment(counts, S_empty)

RECURSIVE CountFrom(_, _, _)
CountFrom(counts, values, i) ==
    IF i > Len(values) THEN counts
    ELSE CountFrom(CountRecord(counts, values[i]), values, i + 1)

\* countByField(records, fieldName), on the records' values of the field
countByField(values) == CountFrom(<<>>, values, 1)

CountInit ==
    /\ fnArgs \in {<<l>> : l \in ListsUpTo(CountValues, MaxCountRecs)}
    /\ fnOut = <<>>
    /\ FnParked

CountByField ==
    /\ fnOut = <<>>
    /\ fnOut' = <<countByField(fnArgs[1])>>
    /\ UNCHANGED <<fnArgs, FnOthers>>

CountNext == CountByField

SpecCount == CountInit /\ [][CountNext]_vars

(* utils.ts: groupByMonth *)

MaxMonthRecs == 2

S_no_date == <<"(","n","o"," ","d","a","t","e",")">>

\* the value of record.fields[dateField]: undefined, "", a number, a string
\* that new Date() cannot parse, or an ISO date string.  An ISO string is
\* held by its calendar fields: year, month, whether the day is the first or
\* the last of the month, and the hour (0 for a date-only string, which
\* new Date() reads as midnight UTC; otherwise a date-time ending in "Z").
DUndefined == [t |-> "undefined", y |-> 0, m |-> 0, day |-> "", h |-> 0]
DEmptyString == [t |-> "empty", y |-> 0, m |-> 0, day |-> "", h |-> 0]
DNumber == [t |-> "number", y |-> 0, m |-> 0, day |-> "", h |-> 0]
DGarbage == [t |-> "garbage", y |-> 0, m |-> 0, day |-> "", h |-> 0]
DIso(y, m, day, h) == [t |-> "iso", y |-> y, m |-> m, day |-> day, h |-> h]

DateYears == {999, 2024}
DateMonths == {1, 12}
DateDays == {"first", "last"}
DateHours == {0, 23}

DateValues ==
    {DUndefined, DEmptyString, DNumber, DGarbage}
    \cup {DIso(y, m, d, h) : y \in DateYears, m \in DateMonths,
                             d \in DateDays, h \in DateHours}

\* the offset of the process's time zone from UTC, in hours
TimeZoneOffsets == {-5, 0, 2}

\* parsed.getFullYear(), parsed.getMonth() + 1: the fields of the instant in
\* the local time zone
LocalYearMonth(d, tz) ==
    IF d.h + tz < 0 /\ d.day = "first"
    THEN IF d.m = 1 THEN [year |-> d.y - 1, month |-> 12]
         ELSE [year |-> d.y, month |-> d.m - 1]
    ELSE IF d.h + tz >= 24 /\ d.day = "last"
    THEN IF d.m = 12 THEN [year |-> d.y + 1, month |-> 1]
         ELSE [year |-> d.y, month |-> d.m + 1]
    ELSE [year |-> d.y, month |-> d.m]

RECURSIVE PadStart(_, _)
\* String.prototype.padStart(n, "0")
PadStart(str, n) == IF Len(str) >= n THEN str ELSE PadStart(<<"0">> \o str, n)

\* the key of one record (lines 115-125)
MonthKey(d, tz) ==
    IF d.t = "iso"
    THEN LET local == LocalYearMonth(d, tz)
             year == NumberToString(local.year)
             month == PadStart(NumberToString(local.month), 2)
         IN year \o <<"-">> \o month
    ELSE S_no_date

RECURSIVE GroupFrom(_, _, _, _)
\* the loop over the records: groups[key].push(record)
GroupFrom(groups, records, tz, i) ==
    IF i > Len(records) THEN groups
    ELSE LET key == MonthKey(records[i].date, tz)
             bucket == IF key \in DOMAIN groups THEN groups[key] ELSE <<>>
             next == [k \in DOMAIN groups \cup {key} |->
                        IF k = key THEN Append(bucket, records[i]) ELSE groups[k]]
         IN GroupFrom(next, records, tz, i + 1)

\* groupByMonth(records, dateField) in a process whose time zone is tz
groupByMonth(records, tz) == GroupFrom(<<>>, records, tz, 1)

\* records 1..n carrying the given dates
RecordsOf(dates) == [i \in 1..Len(dates) |-> [id |-> i, date |-> dates[i]]]

MonthInit ==
    /\ fnArgs \in {<<RecordsOf(l), tz>> :
                     l \in ListsUpTo(DateValues, MaxMonthRecs), tz \in TimeZoneOffsets}
    /\ fnOut = <<>>
    /\ FnParked

GroupByMonth ==
    /\ fnOut = <<>>
    /\ fnOut' = <<groupByMonth(fnArgs[1], fnArgs[2])>>
    /\ UNCHANGED <<fnArgs, FnOthers>>

MonthNext == GroupByMonth

SpecMonth == MonthInit /\ [][MonthNext]_vars

(* airtableGet: the delay of the 429 branch *)

BackoffMaxSecs == 12

\* Retry-After as an HTTP-date (RFC 9110, 10.2.3)
S_http_date ==
    <<"W", "e", "d", ",", " ", "2", "1", " ", "O", "c", "t", " ", "2", "0",
      "1", "5", " ", "0", "7", ":", "2", "8", ":", "0", "0", " ", "G",
      "M", "T">>

\* headers.get("Retry-After"): null, a number of seconds, a date, or empty
BackoffHeaders ==
    {Absent, Some(<<>>), Some(S_http_date)}
    \cup {Some(NumberToString(n)) : n \in 0..BackoffMaxSecs}

BackoffInit ==
    /\ fnArgs \in {<<h, k>> : h \in BackoffHeaders, k \in 0..(MAX_RETRIES - 1)}
    /\ fnOut = <<>>
    /\ FnParked

Backoff ==
    /\ fnOut = <<>>
    /\ fnOut' = <<RetryDelay(fnArgs[1], fnArgs[2])>>
    /\ UNCHANGED <<fnArgs, FnOthers>>

BackoffNext == Backoff

SpecBackoff == BackoffInit /\ [][BackoffNext]_vars

(* GET /api/stats: the statistics computed through `a || b` chains of       *)
(* field names (lines 546-547, 614-617, 651-652)                            *)

MaxFallbackRecs == 2

\* the values of the two candidate fields of a record, for a breakdown and
\* for a by-month statistic
CountPairs ==
    {[first |-> f, second |-> g] :
        f \in {FUndefined, FString(S_a)},
        g \in {FUndefined, FString(S_a), FString(S_b)}}

DatePairs ==
    {[first |-> f, second |-> g] :
        f \in {DUndefined, DIso(2024, 1, "first", 0)},
        g \in {DUndefined, DIso(2024, 1, "first", 0), DIso(2024, 12, "last", 0)}}

\* the records as one helper call reads them: the values of one field
FieldValues(records, which) ==
    [i \in 1..Len(records) |->
        IF which = 1 THEN records[i].first ELSE records[i].second]

\* ToBoolean of an object: true for every object, the empty one included
ObjectTruthy(obj) == TRUE

\* `a || b` on two objects
OrObject(a, b) == IF ObjectTruthy(a) THEN a ELSE b

\* countByField(recs, first) || countByField(recs, second)
CountChain(records) ==
    OrObject(countByField(FieldValues(records, 1)),
             countByField(FieldValues(records, 2)))

\* groupByMonth(recs, first) || groupByMonth(recs, second), in UTC
MonthChain(records) ==
    OrObject(groupByMonth(RecordsOf(FieldValues(records, 1)), 0),
             groupByMonth(RecordsOf(FieldValues(records, 2)), 0))

FallbackInit ==
    /\ fnArgs \in {<<"count", l>> : l \in ListsUpTo(CountPairs, MaxFallbackRecs)}
                 \cup {<<"month", l>> : l \in ListsUpTo(DatePairs, MaxFallbackRecs)}
    /\ fnOut = <<>>
    /\ FnParked

\* levelCounts / leadSourceCounts
CountFallback ==
    /\ fnOut = <<>>
    /\ fnArgs[1] = "count"
    /\ fnOut' = <<CountChain(fnArgs[2])>>
    /\ UNCHANGED <<fnArgs, FnOthers>>

\* clientsByMonth / obByMonth
MonthFallback ==
    /\ fnOut = <<>>
    /\ fnArgs[1] = "month"
    /\ fnOut' = <<MonthChain(fnArgs[2])>>
    /\ UNCHANGED <<fnArgs, FnOthers>>

FallbackNext == CountFallback \/ MonthFallback

SpecFallback == FallbackInit /\ [][FallbackNext]_vars

(* utils.ts: recentRecords *)

MaxRecentRecs == 2
MaxRecentDays == 1

\* instants are counted in hours; the call is made at NowAt
NowAt == 100
HoursPerDay == 24

\* the value of record.fields[dateField]: undefined, "", a number, a string
\* that new Date() cannot parse, or a date string, held by its instant
TUndefined == [t |-> "undefined", at |-> 0]
TEmptyString == [t |-> "empty", at |-> 0]
TNumber == [t |-> "number", at |-> 0]
TGarbage == [t |-> "garbage", at |-> 0]
TInstant(at) == [t |-> "instant", at |-> at]

\* dates around each cutoff and around the instant of the call
RecentValues ==
    {TUndefined, TEmptyString, TNumber, TGarbage}
    \cup {TInstant(NowAt + e) : e \in {-1, 0, 1}}
    \cup {TInstant(NowAt - d * HoursPerDay + e) :
              d \in 1..MaxRecentDays, e \in {-2, -1, 0, 1}}

\* what a change of the local clock inside the period (daylight saving)
\* adds to the length of `days` local days, in hours
ClockShifts == {-1, 0, 1}

\* cutoff.setDate(cutoff.getDate() - days): the same local wall-clock time
\* `days` calendar days earlier
Cutoff(nowAt, days, shift) == nowAt - (days * HoursPerDay + shift)

\* the filter callback (lines 211-216); an Invalid Date compares false
IsRecent(dateValue, cutoff) ==
    /\ dateValue.t = "instant"
    /\ dateValue.at >= cutoff

RECURSIVE FilterRecent(_, _, _)
FilterRecent(records, cutoff, i) ==
    IF i > Len(records) THEN <<>>
    ELSE (IF IsRecent(records[i].date, cutoff) THEN <<records[i]>> ELSE <<>>)
         \o FilterRecent(records, cutoff, i + 1)

\* recentRecords(records, dateField, days) called at nowAt
recentRecords(records, nowAt, days, shift) ==
    FilterRecent(records, Cutoff(nowAt, days, shift), 1)

RecentInit ==
    /\ fnArgs \in {<<RecordsOf(l), days, shift>> :
                     l \in ListsUpTo(RecentValues, MaxRecentRecs),
                     days \in 1..MaxRecentDays, shift \in ClockShifts}
    /\ fnOut = <<>>
    /\ FnParked

RecentRecords ==
    /\ fnOut = <<>>
    /\ fnOut' = <<recentRecords(fnArgs[1], NowAt, fnArgs[2], fnArgs[3])>>
    /\ UNCHANGED <<fnArgs, FnOthers>>

RecentNext == RecentRecords

SpecRecent == RecentInit /\ [][RecentNext]_vars

(* The dashboard's resubmit controls and the request each sends to          *)
(* POST /api/actions                                                        *)

\* the record fields each control copies into its request
NamedButtonFields == <<"Full Name", "Email", "Program Tier", "Client ID">>
LeadDataFields == <<"client_id", "full_name", "best_email", "error_record_id",
                    "original_error">>
OnboardingFields == <<"Lead ID", "Lead Name", "Email", "Error Type", "Execution ID">>

ResubmitControls == {"ResubmitButton (named)", "ResubmitButton (default)",
                     "handleResubmit"}

FieldsOf(control) ==
    CASE control = "ResubmitButton (named)" -> NamedButtonFields
      [] control = "ResubmitButton (default)" -> LeadDataFields
      [] OTHER -> OnboardingFields

\* JSON.stringify of an object literal, then request.json(): a member whose
\* value is undefined is left out; `extra` members always have a value
StringifiedObject(defined, extra) ==
    JObject(Cardinality({i \in DOMAIN defined : defined[i]}) + extra)

\* the body of the fetch("/api/actions") of each control, as the handler
\* parses it; defined[i] tells whether the record has the i-th field
ResubmitBody(control, defined) ==
    CASE control = "ResubmitButton (named)" ->
           [json |-> "object", action |-> JString("resubmit"),
            payload |-> StringifiedObject(defined, 0)]
      [] control = "ResubmitButton (default)" ->
           \* { action: "resubmit", ...leadData }: no `payload` member
           [json |-> "object", action |-> JString("resubmit"),
            payload |-> JUndefined]
      [] OTHER ->
           \* error_record_id: record.id and source: 'dashboard_resubmit'
           [json |-> "object", action |-> JString("resubmit"),
            payload |-> StringifiedObject(defined, 2)]

ResubmitInit ==
    /\ fnArgs \in {<<c, d>> : c \in ResubmitControls,
                              d \in UNION {[DOMAIN FieldsOf(c2) -> BOOLEAN] :
                                              c2 \in ResubmitControls}}
    /\ DOMAIN fnArgs[2] = DOMAIN FieldsOf(fnArgs[1])
    /\ fnOut = <<>>
    /\ FnParked

\* the control is used: one request, the webhook (if called) meeting `outcome`
Resubmit(outcome) ==
    /\ fnOut = <<>>
    /\ LET body == ResubmitBody(fnArgs[1], fnArgs[2]) IN
       fnOut' = <<[body |-> body, response |-> POST(body, outcome),
                   outcome |-> outcome]>>
    /\ UNCHANGED <<fnArgs, FnOthers>>

ResubmitNext == \E outcome \in WebhookOutcomes : Resubmit(outcome)

SpecResubmit == ResubmitInit /\ [][ResubmitNext]_vars

-----------------------------------------------------------------------------
(* C1: TTL cache expiry. For every key k, value v and TTL t > 0, with no   *)
(* set/invalidate/clear on k in between: a get(k) issued less than t after *)
(* set(k, v, t) returns v; a get(k) issued more than t after returns       *)
(* absent; and once a get(k) or has(k) has touched the expired entry, the  *)
(* store (hence size) no longer holds it.                                  *)
C1_TtlExpiry ==
    \A k \in CacheKeys :
        (lastSet[k] # Absent /\ lastSet[k][1].ttl > 0) =>
            LET s == lastSet[k][1] IN
            /\ (lastOp.op = "get" /\ lastOp.key = k /\ now - s.at < s.ttl)
                    => lastOp.ret = Some(s.value)
            /\ (lastOp.op = "get" /\ lastOp.key = k /\ now - s.at > s.ttl)
                    => lastOp.ret = Absent
            /\ touched[k] =>
                    /\ k \notin DOMAIN store
                    /\ CacheSize(store) = Cardinality(DOMAIN store \ {k})

\* a get after the TTL elapsed returned absent, and size dropped the entry
C1_Witness ==
    \E k \in CacheKeys :
        /\ lastSet[k] # Absent /\ lastSet[k][1].ttl > 0
        /\ lastOp.op = "get" /\ lastOp.key = k
        /\ now - lastSet[k][1].at > lastSet[k][1].ttl
        /\ lastOp.pre # Absent
        /\ lastOp.ret = Absent
        /\ touched[k]
        /\ CacheSize(store) = 0

(* C2: cache visibility boundary. get(k)/has(k) report an entry as present *)
(* iff the current time is strictly before its expiresAt; in particular an *)
(* entry stored with ttl <= 0 is never returned by a later get(k), even    *)
(* one issued at the instant of the set.                                   *)
C2_VisibleIffStrictlyBefore ==
    /\ (lastOp.op \in {"get", "has"} /\ lastOp.pre # Absent) =>
            (lastOp.ret # Absent <=> now < lastOp.pre[1].expiresAt)
    /\ \A k \in CacheKeys :
            (/\ lastOp.op = "get" /\ lastOp.key = k
             /\ lastSet[k] # Absent /\ lastSet[k][1].ttl <= 0)
                => lastOp.ret = Absent

(* C9: cache key injectivity. Any two fetchTable calls whose resolved table *)
(* or whose options differ in at least one of fields, filterByFormula,     *)
(* maxRecords, sort or view get different keys from buildCacheKey.         *)
C9_KeyInjective ==
    (Len(keyQ) = 2 /\ keyQ[1] # keyQ[2]) => keyOut[1] # keyOut[2]

(* C6: retry termination. When the store answers every request for a page  *)
(* with 429, fetchTable retries that page request exactly MAX_RETRIES      *)
(* times (the first request is not a retry) and then fails.                *)
C6_RetriesExactlyMax ==
    (call.pc = "failed" /\ call.pageRequests >= 1 /\ call.only429) =>
        /\ call.pageRequests - 1 = MAX_RETRIES
        /\ call.error # Absent

(* C7: pagination completeness. For a store that serves the table as N     *)
(* pages, a fetchTable call without maxRecords that goes to the store      *)
(* requests exactly the N pages (N requests when none had to be re-issued) *)
(* and returns the concatenation of the pages in order.                    *)
C7_PaginationComplete ==
    (call.pc = "done" /\ ~call.hit /\ call.options.maxRecords = Absent) =>
        /\ call.result = Some(StoreRecords(srv))
        /\ call.pagesRequested = NumPages(srv)
        /\ call.pages200 = NumPages(srv)
        /\ call.reissued \/ call.pageRequests = 1

\* a three-page table was fetched whole, one request per page
C7_Witness ==
    /\ call.pc = "done" /\ ~call.hit /\ call.options.maxRecords = Absent
    /\ NumPages(srv) = 3 /\ srv.total = 5
    /\ ~call.reissued
    /\ call.pagesRequested = 3
    /\ call.result = Some(<<1, 2, 3, 4, 5>>)

(* C8: maxRecords cap. For every maxRecords = M smaller than the number of *)
(* records the store would serve, fetchTable returns exactly the first M   *)
(* records and requests no page once M records have been accumulated.      *)
C8_MaxRecordsCap ==
    (/\ call.pc = "done" /\ ~call.hit
     /\ call.options.maxRecords # Absent
     /\ call.options.maxRecords[1] < srv.total) =>
        LET M == call.options.maxRecords[1] IN
        /\ call.result = Some(SubSeq(StoreRecords(srv), 1, M))
        /\ (call.pagesRequested - 1) * PageSize < M

(* C10: cache hit means no network. When fetchTable is called with caching *)
(* enabled (resolved ttl > 0) and the cache holds a live entry under the   *)
(* key of the same table and options, the call issues no request and       *)
(* returns the cached record list.                                         *)
C10_CacheHitNoNetwork ==
    [][ LET key == buildCacheKey(call'.tableId, call'.options) IN
        (/\ call'.callNo # call.callNo
         /\ call'.tableId # <<>>
         /\ ResolveTtl(call'.options) > 0
         /\ key \in DOMAIN store
         /\ now < store[key].expiresAt)
        => (/\ call'.pc = "done"
            /\ call'.pagesRequested = 0 /\ call'.pageRequests = 0
            /\ call'.result = Some(store[key].value)) ]_vars

\* a second call found the list the first one cached and went nowhere
C10_Witness ==
    /\ call.pc = "done" /\ call.hit /\ call.callNo = 2
    /\ call.ttl > 0
    /\ call.pagesRequested = 0
    /\ call.cacheKey \in DOMAIN store
    /\ call.result = Some(store[call.cacheKey].value)

-----------------------------------------------------------------------------
(* C3: getStatistics idempotence.  When a call that assembled and cached    *)
(* the document has completed and a call without forceRefresh starts less   *)
(* than the statistics TTL after that, the new call returns that document   *)
(* and issues no upstream fetch.                                            *)
C3_SecondCallCached ==
    [][ (/\ req'.callNo # req.callNo
         /\ ~req'.force
         /\ req.assembled # Absent
         /\ now - req.assembled[1].at < STATS_TTL_MS)
        => (/\ req'.pc = "done"
            /\ req'.status = 200
            /\ req'.response = Some(req.assembled[1].doc)
            /\ \A i \in TableNos : req'.fetch[i] = "none") ]_vars

C3_Witness ==
    /\ req.pc = "done" /\ req.callNo = 2 /\ ~req.force /\ req.fromCache
    /\ req.assembled # Absent
    /\ now = req.assembled[1].at + 1
    /\ req.response = Some(req.assembled[1].doc)
    /\ \A i \in TableNos : req.fetch[i] = "none"

(* C4: Forced refresh.  Every call with forceRefresh = true issues an       *)
(* upstream request for each table, whatever the cache holds under the      *)
(* statistics key or under the tables' keys.                                *)
C4_ForcedRefetches ==
    (req.pc # "idle" /\ req.force)
    => (/\ ~req.fromCache
        /\ \A i \in TableNos : req.fetch[i] \in {"inflight", "ok", "failed"})

(* C5: Graceful degradation.  Whatever subset of the table fetches throws,  *)
(* the handler answers 200 with a document whose counts are zero for every  *)
(* failed table and are those of the fetched records for every other table. *)
C5_GracefulDegradation ==
    (req.pc = "done" /\ ~req.fromCache)
    => /\ req.status = 200
       /\ req.response # Absent
       /\ LET doc == req.response[1]
              got(i) == req.fetched[i][1]
          IN /\ \A i \in TableNos :
                   /\ req.fetch[i] = "failed" => doc.meta.recordCounts[i] = 0
                   /\ req.fetch[i] # "failed"
                        => doc.meta.recordCounts[i] = Len(got(i))
             /\ req.fetch[1] = "failed"
                  => /\ doc.overview = [totalClients |-> 0, activeClients |-> 0,
                                        inactiveClients |-> 0]
                     /\ doc.clients = [total |-> 0, active |-> 0, inactive |-> 0]
             /\ req.fetch[1] # "failed"
                  => LET n == Len(got(1))
                         a == Cardinality({j \in 1..n : IsActiveClient(got(1)[j])})
                     IN /\ doc.overview = [totalClients |-> n, activeClients |-> a,
                                           inactiveClients |-> n - a]
                        /\ doc.clients = [total |-> n, active |-> a,
                                          inactive |-> n - a]

C5_Witness ==
    /\ req.pc = "done" /\ ~req.fromCache /\ req.status = 200
    /\ req.fetch[1] = "failed" /\ req.fetch[2] = "ok"
    /\ req.response # Absent
    /\ req.response[1].meta.recordCounts[1] = 0
    /\ req.response[1].meta.recordCounts[2] = 1

-----------------------------------------------------------------------------
(* C11: Timeout and network failure handling.  A page request that fails at *)
(* the network level is retried like a 5xx response, so a call that ends    *)
(* with the network error has used up the attempts of the retry cap.        *)
C11_NetworkFailureRetried ==
    (call.pc = "failed" /\ call.error = Some(NetworkError))
    => call.pageRequests >= MAX_RETRIES

(* C12: Client errors are not retried.  When the response to a page request *)
(* is a 4xx other than 429, no further request is issued for the page and   *)
(* the call fails at once with an error carrying the status and the body.   *)
C12_ClientErrorNotRetried ==
    [][ (call.pc = "awaiting" /\ call'.lastStatus \in (400..499) \ {429})
        => (/\ call'.pc = "failed"
            /\ call'.pageRequests = call.pageRequests
            /\ call'.pagesRequested = call.pagesRequested
            /\ call'.outstanding = 0
            /\ \E r \in Responses :
                  /\ r.status = call'.lastStatus
                  /\ call'.error = Some([status |-> r.status, body |-> r.body])) ]_vars

C12_Witness ==
    /\ call.pc = "failed" /\ call.lastStatus = 404
    /\ call.error = Some([status |-> 404, body |-> "NOT_FOUND"])
    /\ call.pagesRequested = 2 /\ call.pageRequests = 2

(* C13: Server errors share the rate-limit retry policy.  While a page is   *)
(* answered only with 429 and 5xx, the requests for it never exceed the     *)
(* cap, a 5xx is followed by the exponential back-off a 429 without         *)
(* Retry-After gets at the same attempt, and the call fails when the cap is *)
(* used up.                                                                 *)
C13_ServerErrorsSharePolicy ==
    /\ call.pageRequests <= MAX_RETRIES
    /\ call.pc = "sleeping" => (call.lastStatus = 429 \/ call.lastStatus >= 500)
    /\ (call.pc = "sleeping" /\ call.lastStatus >= 500)
         => /\ call.delayMs = INITIAL_RETRY_DELAY_MS * (2 ^ (call.pageRequests - 1))
            /\ call.delayMs = DelayAfter429([retryAfter |-> Absent], call.attempt)
    /\ (call.pc = "failed" /\ (call.lastStatus = 429 \/ call.lastStatus >= 500))
         => /\ call.pageRequests = MAX_RETRIES
            /\ call.error # Absent

C13_Witness ==
    /\ call.pc = "failed" /\ call.lastStatus = 429
    /\ call.lastError = Some([status |-> 500, body |-> "SERVER_ERROR"])
    /\ call.error = call.lastError
    /\ call.pageRequests = MAX_RETRIES

(* C14: invalidateTableCache.  Once invalidateTableCache(t) has run, the    *)
(* cache holds no readable entry under any key of table t until a           *)
(* fetchTable call that started after the invalidation stores one.          *)
C14_InvalidatedStaysAbsent ==
    call.inval # Absent
    => \A o \in FetchOptions :
          CacheGetResult(store, now, buildCacheKey(call.inval[1], o)) = Absent

(* C15: cacheTtl = 0 disables caching for the call.  No step of a call made *)
(* with cacheTtl 0 changes the cache, and the call issues a request even    *)
(* when a live entry exists under its key.                                  *)
C15_TtlZeroDisablesCache ==
    [][ (/\ call' # call
         /\ call'.options.cacheTtl = Some(0)
         /\ call'.tableId # <<>>)
        => (/\ store' = store
            /\ call'.callNo # call.callNo
                 => (/\ call'.pc = "awaiting" /\ ~call'.hit
                     /\ call'.pageRequests = 1 /\ call'.outstanding = 1)) ]_vars

C15_Witness ==
    /\ call.pc = "done" /\ call.callNo = 2 /\ ~call.hit
    /\ call.options.cacheTtl = Some(0)
    /\ call.pageRequests >= 1
    /\ call.cacheKey \in DOMAIN store
    /\ now < store[call.cacheKey].expiresAt
    /\ store[call.cacheKey].expiresAt = DEFAULT_TTL_MS

(* C20: Sequential pagination.  At most one page request is outstanding;    *)
(* the request for the next page is issued only once the previous page has  *)
(* been received, and it carries the continuation token of that page.       *)
C20_SequentialPagination ==
    /\ call.outstanding \in {0, 1}
    /\ call.outstanding = 1 <=> call.pc = "awaiting"
    /\ call.pagesRequested <= call.pages200 + 1
    /\ call.pc = "awaiting"
         => /\ call.pagesRequested = call.pages200 + 1
            /\ call.reqOffset = call.offset
            /\ call.pagesRequested > 1 <=> call.reqOffset # Absent

C20_Witness ==
    /\ call.pc = "awaiting" /\ call.reissued
    /\ call.pagesRequested = 3 /\ call.pages200 = 2
    /\ call.reqOffset = Some(2 * PageSize)
    /\ call.outstanding = 1

(* C16: resolveTableId.  For every input the result is the mapped id when   *)
(* the input is a known alias, the input itself when it starts with "tbl",  *)
(* and otherwise the unknown-table error; nothing else is ever returned.    *)
C16_ResolveTotal ==
    fnOut # <<>>
    => LET name == fnArgs[1]
           out == fnOut[1]
           aliasNos == {i \in 1..Len(TableAliases) : TableAliases[i] = name}
       IN /\ aliasNos # {} => \E i \in aliasNos : out = Some(TableIdOf[i])
          /\ StartsWith(name, S_tbl) => out = Some(name)
          /\ (aliasNos = {} /\ ~StartsWith(name, S_tbl)) => out = Absent

C18_CountByField ==
    fnOut # <<>>
    => LET values == fnArgs[1]
           counts == fnOut[1]
           isEmpty(v) == v.t \in {"undefined", "null"} \/ v = FString(<<>>)
           fromItems(key) ==
               Cardinality({p \in (1..Len(values)) \X (1..2) :
                              /\ values[p[1]].t = "array"
                              /\ p[2] <= Len(values[p[1]].items)
                              /\ values[p[1]].items[p[2]] = key})
           fromScalars(key) ==
               Cardinality({i \in 1..Len(values) :
                              /\ values[i].t # "array" /\ ~isEmpty(values[i])
                              /\ StringOf(values[i]) = key})
           fromEmpty(key) ==
               IF key = S_empty
               THEN Cardinality({i \in 1..Len(values) : isEmpty(values[i])})
               ELSE 0
           expected(key) == fromItems(key) + fromScalars(key) + fromEmpty(key)
       IN \A key \in CountStrings \cup {<<"0">>} :
             /\ key \in DOMAIN counts <=> expected(key) > 0
             /\ key \in DOMAIN counts => counts[key] = NumberBucket(expected(key))

(* C19: groupByMonth partitions its input.  Every record is in exactly one  *)
(* bucket, in input order; a record with a calendar date is under the       *)
(* four-digit year and zero-padded month of that date, a record without one *)
(* under "(no date)"; the bucket sizes sum to the number of records.        *)
C19_GroupByMonth ==
    fnOut # <<>>
    => LET records == fnArgs[1]
           groups == fnOut[1]
           places(i) == {p \in UNION {{<<k, j>> : j \in 1..Len(groups[k])} :
                                        k \in DOMAIN groups} :
                           groups[p[1]][p[2]] = records[i]}
           dateKey(d) ==
               IF d.t = "iso"
               THEN PadStart(NumberToString(d.y), 4) \o <<"-">>
                      \o PadStart(NumberToString(d.m), 2)
               ELSE S_no_date
       IN /\ \A i \in 1..Len(records) :
                /\ Cardinality(places(i)) = 1
                /\ \A p \in places(i) : p[1] = dateKey(records[i].date)
          /\ \A k \in DOMAIN groups :
                /\ Len(groups[k]) > 0
                /\ \A j \in 1..(Len(groups[k]) - 1) :
                      groups[k][j].id < groups[k][j + 1].id


(***************************************************************************)
(* C21: concurrent issue, joined combine.  On a statistics cache miss every *)
(* table fetch has been started (answered from the table cache or in        *)
(* flight) by the time the handler awaits, and a document is assembled only *)
(* when every fetch has settled: no fetch is in flight behind an assembled  *)
(* response, and every record count of the document is the length of the    *)
(* list its fetch settled with (0 for a failed fetch).                      *)
(***************************************************************************)
C21_JoinedCombine ==
    /\ req.pc = "awaiting" => \A i \in TableNos : req.fetch[i] \in {"hit", "inflight", "ok", "failed"}
    /\ (req.pc = "done" /\ ~req.fromCache) =>
          /\ \A i \in TableNos : req.fetch[i] \in {"hit", "ok", "failed"}
          /\ req.status = 200
          /\ \A i \in TableNos :
                req.response[1].meta.recordCounts[i] =
                    IF req.fetched[i] = Absent THEN 0 ELSE Len(req.fetched[i][1])

C21_Witness ==
    /\ req.pc = "done" /\ ~req.fromCache
    /\ \E i, j, k \in TableNos :
          /\ req.fetch[i] = "ok" /\ req.fetch[j] = "failed" /\ req.fetch[k] = "hit"


(* C22: back-off interval.  After a 429 on attempt k airtableGet waits the   *)
(* Retry-After hint of the response when it carries one (the number of       *)
(* seconds times 1000 for a hint in seconds, and some definite interval for  *)
(* every hint), and 1000 * 2^k ms when it carries none.                      *)
C22_BackoffInterval ==
    fnOut # <<>> =>
        LET retryAfter == fnArgs[1]
            k == fnArgs[2]
            delayMs == fnOut[1]
        IN IF retryAfter # Absent /\ retryAfter[1] # <<>>
           THEN /\ delayMs # Absent
                /\ \A n \in 0..BackoffMaxSecs :
                      retryAfter[1] = NumberToString(n) => delayMs = Some(n * 1000)
           ELSE delayMs = Some(1000 * (2 ^ k))


(* C23: candidate field fallback.  For a statistic computed through a chain *)
(* of two field names, when no record carries the first field and some      *)
(* record carries the second, the statistic is the one computed from the    *)
(* second field.                                                            *)
C23_CandidateFallback ==
    fnOut # <<>> =>
        LET records == fnArgs[2]
            fromSecond == IF fnArgs[1] = "count"
                          THEN countByField(FieldValues(records, 2))
                          ELSE groupByMonth(RecordsOf(FieldValues(records, 2)), 0)
        IN (/\ \A i \in 1..Len(records) : records[i].first.t = "undefined"
            /\ \E i \in 1..Len(records) : records[i].second.t # "undefined")
           => fnOut[1] = fromSecond


(* C24: recentRecords returns, in input order, exactly the records whose    *)
(* date field parses to an instant not earlier than `days` days before the  *)
(* instant of the call and not later than it; records whose date is missing *)
(* or does not parse are left out.                                          *)
C24_RecentRecords ==
    fnOut # <<>> =>
        LET records == fnArgs[1]
            days == fnArgs[2]
            within(r) == /\ r.date.t = "instant"
                         /\ r.date.at >= NowAt - days * HoursPerDay
                         /\ r.date.at <= NowAt
            out == fnOut[1]
        IN /\ \A i \in 1..Len(records) :
                within(records[i]) <=> (\E j \in 1..Len(out) : out[j] = records[i])
           /\ \A j \in 1..(Len(out) - 1) : out[j].id < out[j + 1].id


(* C25: a failed fetchTable call writes nothing to the cache.  Every step    *)
(* that creates or overwrites a cache entry is the step on which a call      *)
(* completes with its result, and a completed call does not fail afterwards: *)
(* a call that ends in failure (unknown table, a 4xx, retries used up, on    *)
(* the first page or a later one) has cached nothing.                        *)
C25_FailedCallCachesNothing ==
    [][ /\ (\E k \in DOMAIN store' : k \notin DOMAIN store \/ store'[k] # store[k])
           => (/\ call'.pc = "done" /\ call.pc = "awaiting"
               /\ call'.callNo = call.callNo
               /\ DOMAIN store' \ DOMAIN store \subseteq {call'.cacheKey}
               /\ store'[call'.cacheKey].value = call'.result[1])
        /\ (call.pc = "done" /\ call'.callNo = call.callNo) => call'.pc = "done"
      ]_vars

C25_Witness ==
    /\ call.pc = "failed"
    /\ call.pages200 >= 1
    /\ call.ttl > 0
    /\ call.cacheKey \notin DOMAIN store


(* C26: cached record lists are whole under interleaving.  When fetchTable   *)
(* calls for the same key overlap, every value stored under the key is the   *)
(* list one call accumulated from its own pages, from the first page to the  *)
(* last one of that call (the table exhausted or the cap reached), cut to    *)
(* maxRecords; the latest write stands, and no stored value holds pages of   *)
(* different calls.                                                          *)
C26_CachedListsWhole ==
    [][ \A k \in DOMAIN store' :
          (k \notin DOMAIN store \/ store'[k] # store[k])
          => \E i \in Slots :
                LET c == call'[i]
                    value == store'[k].value
                IN /\ call[i].pc = "awaiting" /\ c.pc = "done"
                   /\ \A j \in Slots \ {i} : call'[j] = call[j]
                   /\ k = c.cacheKey
                   /\ value = c.result[1]
                   /\ value = TrimToMax(c.options, c.allRecords)
                   /\ \A n \in 1..Len(c.allRecords) : c.allRecords[n] = n
                   /\ c.offset = Absent \/ CapReached(c.options, c.allRecords)
                   /\ c.options.maxRecords # Absent
                        => Len(value) <= c.options.maxRecords[1]
      ]_vars

C26_Witness ==
    /\ \A i \in Slots : call[i].pc = "done" /\ ~call[i].hit /\ call[i].callNo = 1
    /\ call[1].cacheKey = call[2].cacheKey
    /\ call[1].result # call[2].result
    /\ call[1].pages200 > 1 /\ call[2].pages200 > 1
    /\ call[1].cacheKey \in DOMAIN store
    /\ store[call[1].cacheKey].value = call[1].result[1]


(* C27: a degraded statistics document is cached like a complete one.  The   *)
(* call that assembles a document while some table fetch has failed stores   *)
(* it under the statistics key with the statistics TTL, and a call without   *)
(* forceRefresh that starts before the entry under that key expires returns  *)
(* the stored document and starts no table fetch.                            *)
C27_DegradedDocumentCached ==
    [][ /\ (/\ req.pc = "awaiting" /\ req'.pc = "done"
            /\ \E i \in TableNos : req.fetch[i] = "failed")
           => (/\ req'.status = 200
               /\ STATS_CACHE_KEY \in DOMAIN store'
               /\ store'[STATS_CACHE_KEY] =
                     [value |-> req'.response[1], expiresAt |-> now + STATS_TTL_MS])
        /\ (/\ req'.callNo # req.callNo /\ ~req'.force
            /\ STATS_CACHE_KEY \in DOMAIN store
            /\ now < store[STATS_CACHE_KEY].expiresAt)
           => (/\ req'.pc = "done" /\ req'.fromCache
               /\ req'.response = Some(store[STATS_CACHE_KEY].value)
               /\ \A i \in TableNos : req'.fetch[i] = "none"
               /\ store' = store)
      ]_vars

\* the second table always holds a record, so a count of 0 for it in a
\* document means its fetch had failed when the document was assembled
C27_Witness ==
    /\ req.pc = "done" /\ req.fromCache /\ ~req.force
    /\ req.response[1].meta.recordCounts[2] = 0
    /\ now > req.response[1].meta.fetchedAt


(* C28: client-count consistency.  In every statistics document returned,    *)
(* overview.activeClients + overview.inactiveClients = overview.totalClients *)
(* with 0 <= activeClients <= totalClients, the clients section carries the  *)
(* same three values, and _meta.recordCounts.clients is the total.           *)
C28_ClientCountsConsistent ==
    (req.pc = "done" /\ req.response # Absent) =>
        LET doc == req.response[1]
            o == doc.overview
        IN /\ o.activeClients + o.inactiveClients = o.totalClients
           /\ 0 <= o.activeClients /\ o.activeClients <= o.totalClients
           /\ doc.clients.total = o.totalClients
           /\ doc.clients.active = o.activeClients
           /\ doc.clients.inactive = o.inactiveClients
           /\ doc.meta.recordCounts[1] = o.totalClients

C28_Witness ==
    /\ req.pc = "done" /\ req.response # Absent
    /\ req.response[1].overview.totalClients = 2
    /\ req.response[1].overview.activeClients = 1
    /\ req.response[1].overview.inactiveClients = 1


(* C29: useStats single flight.  Within one hook instance at most one        *)
(* request to /api/stats is in flight; a fetchStats call made while one is   *)
(* in flight issues no request and leaves nothing behind to be issued later; *)
(* and when a request settles, whatever the outcome, the in-flight flag is   *)
(* cleared, loading is false and no request is in flight.                    *)
C29_SingleFlight ==
    [][ /\ hook'.inflight <= 1
        /\ (hook'.calls # hook.calls /\ hook.inflight > 0)
             => (/\ hook'.issued = hook.issued
                 /\ hook'.inflight = hook.inflight
                 /\ hook'.fetching = hook.fetching)
        /\ hook'.inflight < hook.inflight
             => (/\ ~hook'.fetching /\ ~hook'.loading
                 /\ hook'.inflight = 0 /\ hook'.issued = hook.issued)
      ]_vars

C29_Witness ==
    /\ hook.inflight = 1 /\ hook.fetching
    /\ hook.calls = 3 /\ hook.issued = 1


(* C30: resubmit requests pass endpoint validation.  Every request a         *)
(* dashboard resubmit control sends to POST /api/actions carries action      *)
(* "resubmit" and a non-empty payload object, so it reaches the resubmit     *)
(* trigger and is never answered 400.                                        *)
C30_ResubmitPassesValidation ==
    fnOut # <<>> =>
        LET body == fnOut[1].body
            r == fnOut[1].response
        IN /\ body.action = JString("resubmit")
           /\ body.payload.t = "object" /\ body.payload.n > 0
           /\ r.trigger = "resubmit"
           /\ r.status # 400

=============================================================================
